---- MODULE Spec2Model ----
(***************************************************************************)
(* Model of backend/monitoring_service.py: the MonitoringService telemetry *)
(* reporter.  Python values are tagged records; the extraction functions   *)
(* are operators computed as the code computes them, and one invocation    *)
(* of capture_and_send_monitoring_data is two steps, split at its only     *)
(* suspension point (the awaited HTTP POST).                               *)
(***************************************************************************)
EXTENDS Integers, Sequences, FiniteSets, TLC

VARIABLES TIKTOKEN_AVAILABLE, monitoring_service, inv, fcall

vars == <<TIKTOKEN_AVAILABLE, monitoring_service, inv, fcall>>

(***************************************************************************)
(* Bounds of the model.                                                    *)
(***************************************************************************)
MaxMsgs == 3          \* longest message list drawn
MaxParts == 2         \* longest multimodal content list drawn
MaxTok == 1           \* largest token count a provider field holds
NumInvocations == 2   \* concurrent invocations in SpecConc

(***************************************************************************)
(* Program constants.                                                      *)
(***************************************************************************)
TimeoutSeconds == 10
CharsPerToken == 4
MinEstimate == 1
ZeroLatency == 0
HTTP_OK == 200
HTTP_ACCEPTED == 202
Endpoint == "https://monitor.assistace.tecace.com/api/evaluate/async/"
ModelName == "gpt-4.1-mini"

(***************************************************************************)
(* Python values: None, an int, a str, or "absent" (the attribute or key   *)
(* does not exist).                                                        *)
(***************************************************************************)
PyNone == [t |-> "None", s |-> "", n |-> 0]
PyAbsent == [t |-> "absent", s |-> "", n |-> 0]
PyInt(n) == [t |-> "int", s |-> "", n |-> n]
PyStr(s) == [t |-> "str", s |-> s, n |-> 0]

\* bool(x)
Truthy(x) ==
    CASE x.t = "int" -> x.n # 0
      [] x.t = "str" -> x.s # ""
      [] OTHER -> FALSE

\* x or y
PyOr(x, y) == IF Truthy(x) THEN x ELSE y

\* getattr(obj, name, default) / dict.get(name, default)
GetAttr(obj, name, default) ==
    IF obj[name].t = "absent" THEN default ELSE obj[name]

\* x == 0
EqZero(x) == x.t = "int" /\ x.n = 0

Max(a, b) == IF a >= b THEN a ELSE b

(***************************************************************************)
(* extract_user_input                                                      *)
(***************************************************************************)
\* the list comprehension over a multimodal content list: the text of each
\* dict part whose type is "text" (absent text defaults to "")
RECURSIVE TextParts(_)
TextParts(parts) ==
    IF parts = <<>> THEN <<>>
    ELSE LET part == Head(parts) IN
         IF part.k = "dict" /\ part.type = "text"
         THEN <<GetAttr(part, "text", PyStr(""))>> \o TextParts(Tail(parts))
         ELSE TextParts(Tail(parts))

\* " ".join(text_parts): raises TypeError when an item is not a str
RECURSIVE Join(_)
Join(items) ==
    IF items = <<>> THEN [raised |-> FALSE, s |-> ""]
    ELSE IF Head(items).t # "str" THEN [raised |-> TRUE, s |-> ""]
    ELSE LET rest == Join(Tail(items)) IN
         IF rest.raised THEN rest
         ELSE IF Tail(items) = <<>> THEN [raised |-> FALSE, s |-> Head(items).s]
         ELSE [raised |-> FALSE, s |-> Head(items).s \o " " \o rest.s]

\* the loop "for message in reversed(messages)" from position i downwards;
\* an exception inside the loop is caught by the function's handler
RECURSIVE ScanReversed(_, _)
ScanReversed(items, i) ==
    IF i = 0 THEN ""
    ELSE LET message == items[i] IN
         IF message.k # "dict" THEN ""
         ELSE IF message.role = "user"
         THEN LET content == message.content IN
              CASE content.k \in {"str", "missing"} -> content.s
                [] content.k = "list" ->
                     LET j == Join(TextParts(content.parts)) IN
                     IF j.raised THEN "" ELSE j.s
                [] OTHER -> ScanReversed(items, i - 1)
         ELSE ScanReversed(items, i - 1)

extract_user_input(messages) ==
    IF messages.k # "list" THEN "" ELSE ScanReversed(messages.items, Len(messages.items))

(***************************************************************************)
(* extract_assistant_output                                                *)
(***************************************************************************)
extract_assistant_output(openai_response) ==
    LET choices == openai_response.choices IN
    CASE choices.k \in {"absent", "empty"} -> PyStr("")
      [] choices.k = "unsubscriptable" -> PyStr("")
      [] choices.k \in {"nomessage", "nocontent"} -> PyStr("")
      [] OTHER -> PyOr(choices.content, PyStr(""))

(***************************************************************************)
(* estimate_tokens_fallback                                                *)
(***************************************************************************)
\* the estimate without its minimum of 1
CharEstimate_no_minimum(text) ==
    IF text.t = "str"
    THEN [raised |-> FALSE, n |-> Len(text.s) \div CharsPerToken]
    ELSE [raised |-> TRUE, n |-> 0]

\* max(1, len(text) // 4); len() raises TypeError on an int
CharEstimate(text) ==
    IF text.t = "str"
    THEN [raised |-> FALSE, n |-> Max(MinEstimate, Len(text.s) \div CharsPerToken)]
    ELSE [raised |-> TRUE, n |-> 0]

\* what TOKENIZER.encode(text, allowed_special="all") can do: raise, or yield
\* between one token and one token per character of a non-empty str
EncodeOutcomes(text) ==
    {[raised |-> TRUE, n |-> 0]} \cup
    (IF text.t = "str" THEN {[raised |-> FALSE, n |-> k] : k \in 1..Len(text.s)} ELSE {})

estimate_tokens_fallback(tiktoken, text, enc) ==
    IF ~tiktoken \/ ~Truthy(text) THEN CharEstimate(text)
    ELSE IF enc.raised THEN CharEstimate(text)
    ELSE [raised |-> FALSE, n |-> enc.n]

(***************************************************************************)
(* extract_token_usage                                                     *)
(***************************************************************************)
default_tokens ==
    [input_tokens |-> PyInt(0), output_tokens |-> PyInt(0), total_tokens |-> PyInt(0)]

extract_token_usage(openai_response) ==
    LET usage == openai_response.usage IN
    IF usage.k # "obj" THEN default_tokens
    ELSE [input_tokens |-> PyOr(GetAttr(usage, "prompt_tokens", PyNone),
                                GetAttr(usage, "input_tokens", PyInt(0))),
          output_tokens |-> PyOr(GetAttr(usage, "completion_tokens", PyNone),
                                 GetAttr(usage, "output_tokens", PyInt(0))),
          total_tokens |-> GetAttr(usage, "total_tokens", PyInt(0))]

(***************************************************************************)
(* send_evaluation_data: the outcome of the one awaited POST decides the   *)
(* boolean; both except clauses return False.                              *)
(***************************************************************************)
\* only 200 accepted, and a timeout taken for success
send_evaluation_data_only_200(outcome) ==
    CASE outcome.kind = "status" -> outcome.code = HTTP_OK
      [] outcome.kind = "timeout" -> TRUE
      [] OTHER -> FALSE

send_evaluation_data(outcome) ==
    CASE outcome.kind = "status" -> outcome.code \in {HTTP_OK, HTTP_ACCEPTED}
      [] outcome.kind = "timeout" -> FALSE
      [] OTHER -> FALSE

(***************************************************************************)
(* capture_and_send_monitoring_data                                        *)
(***************************************************************************)
uuid4 == "uuid4"

Returned(b) == [kind |-> "return", val |-> b]
Raised == [kind |-> "raise", val |-> FALSE]
Pending == [kind |-> "pending", val |-> FALSE]

\* a handler that lets the exception out
capture_except_reraise == Raised

\* "except Exception as e: ... return False"
capture_except == Returned(FALSE)

\* the guard without its test of the texts
needs_fallback_zero_total_only(token_data, input_text, output_text) ==
    EqZero(token_data.total_tokens)

\* the guard without its test of the provider's total
needs_fallback_any_text(token_data, input_text, output_text) ==
    input_text # "" \/ Truthy(output_text)

\* "if token_data["total_tokens"] == 0 and (input_text or output_text)"
needs_fallback(token_data, input_text, output_text) ==
    EqZero(token_data.total_tokens) /\ (input_text # "" \/ Truthy(output_text))

NoEstimate == [raised |-> FALSE, n |-> 0]

\* the recomputed token_data; raised when either estimate raises
fallback_token_data(tiktoken, input_text, output_text, enc_in, enc_out) ==
    LET i == IF input_text # ""
             THEN estimate_tokens_fallback(tiktoken, PyStr(input_text), enc_in)
             ELSE NoEstimate
        o == IF Truthy(output_text)
             THEN estimate_tokens_fallback(tiktoken, output_text, enc_out)
             ELSE NoEstimate
    IN [raised |-> i.raised \/ o.raised,
        token_data |-> [input_tokens |-> PyInt(i.n),
                        output_tokens |-> PyInt(o.n),
                        total_tokens |-> PyInt(i.n + o.n)]]

evaluation_data(session_id, input_text, output_text, token_data) ==
    [session_id |-> session_id,
     input_text |-> input_text,
     output_text |-> output_text,
     model |-> ModelName,
     llm_latency |-> ZeroLatency,
     api_latency |-> ZeroLatency,
     input_tokens |-> token_data.input_tokens,
     output_tokens |-> token_data.output_tokens,
     total_tokens |-> token_data.total_tokens]

NoRequest == [url |-> "", timeout |-> 0]
NoOutcome == [kind |-> "none", code |-> 0]
NoUsageFields(k) ==
    [k |-> k, prompt_tokens |-> PyAbsent, input_tokens |-> PyAbsent,
     completion_tokens |-> PyAbsent, output_tokens |-> PyAbsent,
     total_tokens |-> PyAbsent]

\* an invocation that has not been made
Idle ==
    [pc |-> "idle", usage |-> NoUsageFields("absent"), input_text |-> "",
     output_text |-> PyStr(""), estimated |-> FALSE,
     payload |-> evaluation_data("", "", PyStr(""), default_tokens),
     request |-> NoRequest, posts |-> 0, outcome |-> NoOutcome, ret |-> Pending]

\* the synchronous part of the call, up to "await self.send_evaluation_data":
\* the locals it leaves, and the request it puts in flight, or the return of
\* the handler when an estimate raised
capture_and_send_monitoring_data(tiktoken, service, openai_response, messages, conversation_id, enc_in, enc_out) ==
    LET session_id == PyOr(conversation_id, PyStr(uuid4)).s
        input_text == extract_user_input(messages)
        output_text == extract_assistant_output(openai_response)
        provider == extract_token_usage(openai_response)
        fb == needs_fallback(provider, input_text, output_text)
        est == fallback_token_data(tiktoken, input_text, output_text, enc_in, enc_out)
        token_data == IF fb THEN est.token_data ELSE provider
        locals == [Idle EXCEPT !.usage = openai_response.usage,
                               !.input_text = input_text,
                               !.output_text = output_text]
    IN IF fb /\ est.raised
       THEN [locals EXCEPT !.pc = "done", !.ret = capture_except]
       ELSE [locals EXCEPT !.pc = "posting",
                           !.estimated = fb,
                           !.payload = evaluation_data(session_id, input_text,
                                                       output_text, token_data),
                           !.request = [url |-> service.endpoint,
                                        timeout |-> service.timeout],
                           !.posts = @ + 1]

\* a second POST after a failed one
complete_retry(r, outcome) ==
    IF ~send_evaluation_data(outcome) /\ r.posts < 2
    THEN [r EXCEPT !.outcome = outcome, !.posts = @ + 1]
    ELSE [r EXCEPT !.pc = "done", !.outcome = outcome,
                   !.ret = Returned(send_evaluation_data(outcome))]

\* the rest of the call, once the POST has ended with `outcome`:
\* "success = await ...; return success"
complete(r, outcome) ==
    [r EXCEPT !.pc = "done", !.outcome = outcome,
              !.ret = Returned(send_evaluation_data(outcome))]

\* one client shared by the invocations: a timeout ends every request in flight
resume_shared_client(invs, i, outcome) ==
    [j \in DOMAIN invs |->
        IF j = i \/ (outcome.kind = "timeout" /\ invs[j].pc = "posting")
        THEN complete(invs[j], outcome) ELSE invs[j]]

\* the completion of invocation i's request: each call awaits the POST of the
\* client it opened itself ("async with httpx.AsyncClient(...) as client")
resume(invs, i, outcome) == [invs EXCEPT ![i] = complete(@, outcome)]

(***************************************************************************)
(* The inputs drawn.                                                       *)
(***************************************************************************)
SeqUpTo(S, n) == UNION {[1..k -> S] : k \in 0..n}

\* parts of a multimodal content list: text parts (text a str, None or
\* missing), an image part, and a part that is not a dict
TextPart(text) == [k |-> "dict", type |-> "text", text |-> text]
Parts ==
    {TextPart(PyStr("Hi")), TextPart(PyNone), TextPart(PyAbsent),
     [k |-> "dict", type |-> "image_url", text |-> PyAbsent],
     [k |-> "other", type |-> "", text |-> PyAbsent]}

StrContent(s) == [k |-> "str", s |-> s, parts |-> <<>>]
ListContent(parts) == [k |-> "list", s |-> "", parts |-> parts]
MissingContent == [k |-> "missing", s |-> "", parts |-> <<>>]
NullContent == [k |-> "null", s |-> "", parts |-> <<>>]
Contents ==
    {MissingContent, NullContent, StrContent("Hello"), StrContent("abcdefgh")}
    \cup {ListContent(ps) : ps \in SeqUpTo(Parts, MaxParts)}

Message(role, content) == [k |-> "dict", role |-> role, content |-> content]
NotADict == [k |-> "other", role |-> "", content |-> MissingContent]
Messages ==
    {Message("user", c) : c \in Contents}
    \cup {Message("assistant", StrContent("Hey")), Message("", StrContent("Hey")), NotADict}

MessageList(items) == [k |-> "list", items |-> items]
NoMessages == [k |-> "None", items |-> <<>>]
MessageLists == {MessageList(items) : items \in SeqUpTo(Messages, MaxMsgs)} \cup {NoMessages}

\* the choices of a response: the attribute absent, an empty list, a value
\* that cannot be indexed, a first choice without message, a message without
\* content, or a message whose content is None, a str or an int
Choices(k, content) == [k |-> k, content |-> content]
ChoicesSet ==
    {Choices(k, PyAbsent) : k \in {"absent", "empty", "unsubscriptable", "nomessage", "nocontent"}}
    \cup {Choices("content", c) : c \in {PyNone, PyStr(""), PyStr("Hey"), PyInt(5)}}

\* a usage field: absent, None, or an int from -1 to MaxTok
TokVals == {PyAbsent, PyNone} \cup {PyInt(n) : n \in -1..MaxTok}
UsageObjects ==
    [k : {"obj"}, prompt_tokens : TokVals, input_tokens : TokVals,
     completion_tokens : TokVals, output_tokens : TokVals, total_tokens : TokVals]
\* usage absent, None, or an attribute whose access raises
Usages == UsageObjects \cup {NoUsageFields(k) : k \in {"absent", "null", "raises"}}

Response(choices, usage) == [choices |-> choices, usage |-> usage]
NoResponse == Response(Choices("absent", PyAbsent), NoUsageFields("absent"))

ConversationIds == {PyNone, PyStr("conv-1")}

StatusCodes == {HTTP_OK, 201, HTTP_ACCEPTED, 404, 500}
Outcomes ==
    {[kind |-> "status", code |-> c] : c \in StatusCodes}
    \cup {[kind |-> "timeout", code |-> 0], [kind |-> "error", code |-> 0]}

NoEncode == [raised |-> FALSE, n |-> 0]
\* the outcomes of the tokenizer for one text, when the call reaches it
EncodeChoices(tiktoken, reached, text) ==
    IF tiktoken /\ reached /\ Truthy(text) THEN EncodeOutcomes(text) ELSE {NoEncode}

\* the inputs of one invocation of capture_and_send_monitoring_data
CaptureMessages ==
    {NoMessages, MessageList(<<>>),
     MessageList(<<Message("user", StrContent("Hello"))>>),
     MessageList(<<Message("user", StrContent("abcdefgh")), Message("assistant", StrContent("Hey"))>>)}
CaptureChoices ==
    {Choices("absent", PyAbsent), Choices("empty", PyAbsent)}
    \cup {Choices("content", c) : c \in {PyNone, PyStr("Hey"), PyInt(5)}}
\* usage records whose second-convention fields are absent or hold MaxTok
CaptureUsages ==
    [k : {"obj"}, prompt_tokens : TokVals, input_tokens : {PyAbsent, PyInt(MaxTok)},
     completion_tokens : TokVals, output_tokens : {PyAbsent, PyInt(MaxTok)},
     total_tokens : TokVals]
    \cup {NoUsageFields(k) : k \in {"absent", "null", "raises"}}
CaptureResponses == {Response(c, u) : c \in CaptureChoices, u \in CaptureUsages}

\* the inputs of the concurrent invocations
ConcMessages == {MessageList(<<>>), MessageList(<<Message("user", StrContent("Hello"))>>)}
ConcResponses ==
    {Response(Choices("content", PyStr("Hey")), NoUsageFields("absent")),
     Response(Choices("content", PyNone),
              [NoUsageFields("obj") EXCEPT !.prompt_tokens = PyInt(MaxTok),
                                           !.total_tokens = PyInt(MaxTok)])}
ConcOutcomes ==
    {[kind |-> "status", code |-> HTTP_OK], [kind |-> "status", code |-> 500],
     [kind |-> "timeout", code |-> 0]}

(***************************************************************************)
(* The service object and the state after import.                          *)
(***************************************************************************)
MonitoringService == [endpoint |-> Endpoint, timeout |-> TimeoutSeconds]

NoCall ==
    [fn |-> "none", messages |-> NoMessages, response |-> NoResponse,
     text |-> PyStr(""), ret |-> PyStr(""), tokens |-> default_tokens, raised |-> FALSE]

InitModule ==
    /\ TIKTOKEN_AVAILABLE \in BOOLEAN
    /\ monitoring_service = MonitoringService
    /\ fcall = NoCall

Init == InitModule /\ inv = [i \in {1} |-> Idle]
InitConc == InitModule /\ inv = [i \in 1..NumInvocations |-> Idle]
InitFn == InitModule /\ inv = [i \in {1} |-> Idle]

(***************************************************************************)
(* Steps of an invocation.                                                 *)
(***************************************************************************)
\* invocation i is made with inputs from the given sets and runs to its await
Call(i, messageSet, responseSet, idSet) ==
    /\ inv[i].pc = "idle"
    /\ \E messages \in messageSet, openai_response \in responseSet,
          conversation_id \in idSet :
         LET input_text == extract_user_input(messages)
             output_text == extract_assistant_output(openai_response)
             fb == needs_fallback(extract_token_usage(openai_response),
                                  input_text, output_text)
         IN \E enc_in \in EncodeChoices(TIKTOKEN_AVAILABLE, fb, PyStr(input_text)),
               enc_out \in EncodeChoices(TIKTOKEN_AVAILABLE, fb, output_text) :
              inv' = [inv EXCEPT ![i] =
                        capture_and_send_monitoring_data(
                            TIKTOKEN_AVAILABLE, monitoring_service, openai_response,
                            messages, conversation_id, enc_in, enc_out)]
    /\ UNCHANGED <<TIKTOKEN_AVAILABLE, monitoring_service, fcall>>

\* the POST of invocation i ends and the invocation returns
Respond(i, outcomeSet) ==
    /\ inv[i].pc = "posting"
    /\ \E outcome \in outcomeSet : inv' = resume(inv, i, outcome)
    /\ UNCHANGED <<TIKTOKEN_AVAILABLE, monitoring_service, fcall>>

CaptureCall ==
    \E i \in DOMAIN inv : Call(i, CaptureMessages, CaptureResponses, ConversationIds)
CaptureResponse == \E i \in DOMAIN inv : Respond(i, Outcomes)
ConcCall == \E i \in DOMAIN inv : Call(i, ConcMessages, ConcResponses, {PyNone})
ConcResponse == \E i \in DOMAIN inv : Respond(i, ConcOutcomes)

Next == CaptureCall \/ CaptureResponse
Spec == Init /\ [][Next]_vars

NextConc == ConcCall \/ ConcResponse
SpecConc == InitConc /\ [][NextConc]_vars

(***************************************************************************)
(* Calls of the extraction functions on their own.                         *)
(***************************************************************************)
CallExtractUserInput ==
    /\ fcall.fn = "none"
    /\ \E messages \in MessageLists :
         fcall' = [NoCall EXCEPT !.fn = "extract_user_input", !.messages = messages,
                                 !.ret = PyStr(extract_user_input(messages))]
    /\ UNCHANGED <<TIKTOKEN_AVAILABLE, monitoring_service, inv>>

CallExtractAssistantOutput ==
    /\ fcall.fn = "none"
    /\ \E choices \in ChoicesSet :
         LET openai_response == Response(choices, NoUsageFields("absent")) IN
         fcall' = [NoCall EXCEPT !.fn = "extract_assistant_output",
                                 !.response = openai_response,
                                 !.ret = extract_assistant_output(openai_response)]
    /\ UNCHANGED <<TIKTOKEN_AVAILABLE, monitoring_service, inv>>

CallExtractTokenUsage ==
    /\ fcall.fn = "none"
    /\ \E usage \in Usages :
         LET openai_response == Response(Choices("absent", PyAbsent), usage) IN
         fcall' = [NoCall EXCEPT !.fn = "extract_token_usage",
                                 !.response = openai_response,
                                 !.tokens = extract_token_usage(openai_response)]
    /\ UNCHANGED <<TIKTOKEN_AVAILABLE, monitoring_service, inv>>

CallEstimateTokensFallback ==
    /\ fcall.fn = "none"
    /\ \E text \in {PyStr(""), PyStr("Hi"), PyStr("Hello"), PyStr("abcdefgh"), PyInt(5)} :
       \E enc \in EncodeChoices(TIKTOKEN_AVAILABLE, TRUE, text) :
         LET e == estimate_tokens_fallback(TIKTOKEN_AVAILABLE, text, enc) IN
         fcall' = [NoCall EXCEPT !.fn = "estimate_tokens_fallback", !.text = text,
                                 !.ret = PyInt(e.n), !.raised = e.raised]
    /\ UNCHANGED <<TIKTOKEN_AVAILABLE, monitoring_service, inv>>

NextFn ==
    \/ CallExtractUserInput
    \/ CallExtractAssistantOutput
    \/ CallExtractTokenUsage
    \/ CallEstimateTokensFallback
SpecFn == InitFn /\ [][NextFn]_vars

(***************************************************************************)
(* Properties.                                                             *)
(***************************************************************************)
Invocations == DOMAIN inv
\* the invocation built its payload and issued its POST
Sent(i) == inv[i].posts >= 1
Finished(i) == inv[i].pc = "done"
\* the provider's total is 0: no usage record, no total in it, or a total of 0
ProviderTotalZero(usage) ==
    usage.k # "obj" \/ usage.total_tokens.t = "absent" \/ EqZero(usage.total_tokens)
ProviderTotalPositive(usage) ==
    usage.k = "obj" /\ usage.total_tokens.t = "int" /\ usage.total_tokens.n > 0
HttpSuccess(outcome) == outcome.kind = "status" /\ outcome.code \in {200, 202}
NonNegativeInt(x) == x.t = "int" /\ x.n >= 0
\* a usage record each of whose fields is absent or a non-negative integer
PlainUsage(usage) ==
    /\ usage.k = "obj"
    /\ \A f \in {"prompt_tokens", "input_tokens", "completion_tokens",
                 "output_tokens", "total_tokens"} :
          usage[f].t = "absent" \/ NonNegativeInt(usage[f])

\* C1: capture_and_send_monitoring_data never propagates an exception: every
\* finished call has returned a boolean, and the boolean is false when a step
\* raised into the handler (no POST was issued) or the HTTP attempt failed.
C1_NeverRaises ==
    \A i \in Invocations :
        /\ inv[i].ret.kind \in {"pending", "return"}
        /\ Finished(i) =>
              /\ inv[i].ret.kind = "return"
              /\ inv[i].ret.val \in BOOLEAN
              /\ (~Sent(i) \/ ~HttpSuccess(inv[i].outcome)) => inv[i].ret.val = FALSE

\* C1 witness: a call whose output estimate raised (content of the wrong type,
\* provider total 0) has finished without issuing a POST.
C1_Witness ==
    \E i \in Invocations :
        Finished(i) /\ ~Sent(i) /\ inv[i].output_text.t = "int" /\ inv[i].ret.val = FALSE

\* C2: a finished call that issued its POST returned true exactly when the POST
\* ended with status 200 or 202, and false for any other status, a timeout or a
\* transport error; the call returns send_evaluation_data's boolean unchanged.
C2_TrueIff200Or202 ==
    \A i \in Invocations :
        (Finished(i) /\ Sent(i)) =>
            /\ inv[i].ret.kind = "return"
            /\ inv[i].ret.val = HttpSuccess(inv[i].outcome)

\* C2 witness: a call has returned true after a 202.
C2_Witness ==
    \E i \in Invocations :
        Finished(i) /\ inv[i].outcome = [kind |-> "status", code |-> 202]
                    /\ inv[i].ret = Returned(TRUE)

\* C3: no retry: an invocation issues at most one POST, exactly one once its
\* request is in flight or has ended, and it is finished as soon as the one
\* attempt has an outcome.
C3_NoRetry ==
    \A i \in Invocations :
        /\ inv[i].posts <= 1
        /\ inv[i].pc = "posting" => inv[i].posts = 1
        /\ inv[i].outcome.kind # "none" => (inv[i].posts = 1 /\ Finished(i))
        /\ inv[i].posts = 1 =>
              inv[i].request = [url |-> Endpoint, timeout |-> TimeoutSeconds]

\* C3 witness: a call has finished after a timeout with one POST issued.
C3_Witness ==
    \E i \in Invocations :
        Finished(i) /\ inv[i].outcome.kind = "timeout" /\ inv[i].posts = 1

\* C4: when the provider's total is 0 and input_text is non-empty the payload
\* has input_tokens > 0 and total_tokens = input_tokens + output_tokens; when the
\* provider's total is 0 and either text is non-empty the payload's total is not
\* 0, an empty text counting 0 and a non-empty text at least 1.
C4_FallbackOnZeroTotal ==
    \A i \in Invocations :
        (Sent(i) /\ ProviderTotalZero(inv[i].usage)) =>
            LET p == inv[i].payload
                in_text == inv[i].input_text
                out_text == inv[i].output_text
            IN /\ in_text # "" =>
                     /\ p.input_tokens.t = "int" /\ p.input_tokens.n > 0
                     /\ p.total_tokens.n = p.input_tokens.n + p.output_tokens.n
               /\ (in_text # "" \/ Truthy(out_text)) =>
                     /\ p.total_tokens.t = "int" /\ p.total_tokens.n # 0
                     /\ in_text = "" => p.input_tokens = PyInt(0)
                     /\ in_text # "" => p.input_tokens.n >= 1
                     /\ ~Truthy(out_text) => p.output_tokens = PyInt(0)
                     /\ Truthy(out_text) => p.output_tokens.n >= 1

\* C4 witness: a payload was sent for a provider total of 0 with both texts
\* non-empty, its counts estimated.
C4_Witness ==
    \E i \in Invocations :
        /\ Sent(i) /\ ProviderTotalZero(inv[i].usage) /\ inv[i].estimated
        /\ inv[i].input_text # "" /\ Truthy(inv[i].output_text)

BothTextsEmpty(i) == inv[i].input_text = "" /\ inv[i].output_text = PyStr("")

\* C5 as stated: when the provider's total is 0 and both texts are empty, the
\* payload's three counts are 0 whatever the usage record's other fields hold
\* (here: non-negative integers, or absent).
C5_AllZeros ==
    \A i \in Invocations :
        (Sent(i) /\ PlainUsage(inv[i].usage) /\ EqZero(inv[i].usage.total_tokens)
            /\ BothTextsEmpty(i)) =>
            /\ inv[i].payload.input_tokens = PyInt(0)
            /\ inv[i].payload.output_tokens = PyInt(0)
            /\ inv[i].payload.total_tokens = PyInt(0)

\* C5 amended: when the provider's total is 0 and both texts are empty, no
\* estimate is made and the payload carries what the usage record holds: a
\* total of 0, a non-zero prompt_tokens or completion_tokens as it is, and
\* zeros when there is no usage record.
C5_NoFallbackProviderCounts ==
    \A i \in Invocations :
        (Sent(i) /\ ProviderTotalZero(inv[i].usage) /\ BothTextsEmpty(i)) =>
            LET p == inv[i].payload
                u == inv[i].usage
            IN /\ ~inv[i].estimated
               /\ p.total_tokens = PyInt(0)
               /\ u.k # "obj" => (p.input_tokens = PyInt(0) /\ p.output_tokens = PyInt(0))
               /\ (u.k = "obj" /\ Truthy(u.prompt_tokens)) =>
                     p.input_tokens = u.prompt_tokens
               /\ (u.k = "obj" /\ Truthy(u.completion_tokens)) =>
                     p.output_tokens = u.completion_tokens

\* C5 witness: a payload was sent with both texts empty, a provider total of 0
\* and a non-zero prompt_tokens.
C5_Witness ==
    \E i \in Invocations :
        /\ Sent(i) /\ BothTextsEmpty(i) /\ inv[i].usage.k = "obj"
        /\ EqZero(inv[i].usage.total_tokens) /\ Truthy(inv[i].usage.prompt_tokens)

\* the values a payload field may take from the two fields of a usage record:
\* one of the fields present, or 0
Provided(first, second) == ({first, second} \ {PyAbsent}) \cup {PyInt(0)}

\* C6: when the provider's total is greater than 0, no estimate is made and the
\* payload's counts are the provider's: the total as it is, a non-zero
\* prompt_tokens and completion_tokens as they are, and otherwise a value of the
\* record (or 0 for none), whatever the texts.
C6_ProviderVerbatim ==
    \A i \in Invocations :
        (inv[i].pc # "idle" /\ ProviderTotalPositive(inv[i].usage)) =>
            LET p == inv[i].payload
                u == inv[i].usage
            IN /\ Sent(i)
               /\ ~inv[i].estimated
               /\ p.total_tokens = u.total_tokens
               /\ p.input_tokens \in Provided(u.prompt_tokens, u.input_tokens)
               /\ p.output_tokens \in Provided(u.completion_tokens, u.output_tokens)
               /\ Truthy(u.prompt_tokens) => p.input_tokens = u.prompt_tokens
               /\ Truthy(u.completion_tokens) => p.output_tokens = u.completion_tokens

\* C6 witness: a payload was sent with a positive provider total and both texts
\* non-empty.
C6_Witness ==
    \E i \in Invocations :
        /\ Sent(i) /\ ProviderTotalPositive(inv[i].usage)
        /\ inv[i].input_text # "" /\ Truthy(inv[i].output_text)
        /\ inv[i].payload.total_tokens = inv[i].usage.total_tokens

\* the position of the last entry of a list whose role is "user" (0 for none)
LastUser(items) ==
    LET users == {k \in 1..Len(items) : items[k].role = "user"} IN
    IF users = {} THEN 0 ELSE CHOOSE k \in users : \A m \in users : m <= k

\* C7 as stated: for a list of well-formed messages, extract_user_input returns
\* what the last entry with role "user" alone yields, and "" when there is none.
C7_LastUserOnly ==
    (fcall.fn = "extract_user_input" /\ fcall.messages.k = "list"
        /\ \A k \in 1..Len(fcall.messages.items) : fcall.messages.items[k].k = "dict") =>
        LET items == fcall.messages.items
            last == LastUser(items)
        IN IF last = 0 THEN fcall.ret = PyStr("")
           ELSE fcall.ret = PyStr(extract_user_input(MessageList(<<items[last]>>)))

\* C8 as stated: in every payload sent, input_tokens, output_tokens and
\* total_tokens are non-negative integers.
C8_NonNegativeCounts ==
    \A i \in Invocations :
        Sent(i) =>
            /\ NonNegativeInt(inv[i].payload.input_tokens)
            /\ NonNegativeInt(inv[i].payload.output_tokens)
            /\ NonNegativeInt(inv[i].payload.total_tokens)

\* C9 as stated: when a usage record holds non-negative integers under both
\* prompt_tokens and input_tokens (completion_tokens and output_tokens),
\* extract_token_usage returns prompt_tokens (completion_tokens); total_tokens
\* is read as it is; the record is all zeros when usage is absent.
C9_FirstConvention ==
    fcall.fn = "extract_token_usage" =>
        LET u == fcall.response.usage IN
        /\ u.k # "obj" => fcall.tokens = default_tokens
        /\ (u.k = "obj" /\ u.total_tokens.t # "absent") =>
              fcall.tokens.total_tokens = u.total_tokens
        /\ (PlainUsage(u) /\ u.prompt_tokens.t = "int" /\ u.input_tokens.t = "int") =>
              fcall.tokens.input_tokens = u.prompt_tokens
        /\ (PlainUsage(u) /\ u.completion_tokens.t = "int" /\ u.output_tokens.t = "int") =>
              fcall.tokens.output_tokens = u.completion_tokens

\* C10: concurrent invocations are independent: a step changes the record of one
\* invocation only and never the shared service, an invocation's payload and
\* request stay as it built them, and its result is decided by the outcome of
\* its own request, whatever the others do.
C10_Independent ==
    /\ [](\A i \in Invocations :
            (Finished(i) /\ Sent(i)) => inv[i].ret = Returned(HttpSuccess(inv[i].outcome)))
    /\ [][/\ monitoring_service' = monitoring_service
          /\ \A i \in Invocations :
                /\ (\E j \in Invocations \ {i} : inv[j]' # inv[j]) => inv[i]' = inv[i]
                /\ inv[i].pc # "idle" =>
                      /\ inv[i]'.payload = inv[i].payload
                      /\ inv[i]'.request = inv[i].request]_vars

\* C10 witness: one invocation has ended in a timeout and returned false, and
\* another has returned true.
C10_Witness ==
    \E i \in Invocations : \E j \in Invocations \ {i} :
        /\ Finished(i) /\ inv[i].outcome.kind = "timeout" /\ inv[i].ret = Returned(FALSE)
        /\ Finished(j) /\ inv[j].ret = Returned(TRUE)

====
